---- MODULE Spec2Model ----
(***************************************************************************)
(* Model of the admin front end's request layer: ApiClient.makeRequest     *)
(* (retry loop, timeout timer, auth interceptor, error classification),    *)
(* TokenManager (localStorage keys auth_token / refresh_token), the         *)
(* ApiClient authentication methods and the AuthProvider session state.    *)
(***************************************************************************)
EXTENDS Integers, Sequences, FiniteSets, TLC

\* ------------------------------------------------------------------ bounds
MaxRetries == 2        \* largest per-request `retries` override explored
MaxClock == 3          \* an attempt's clock is followed for this many ticks
MaxList == 3           \* longest cached business list a create may append to
MaxMutations == 2      \* business mutations followed in one run
MaxExecutes == 2       \* calls one useApi hook issues in one run
MaxHops == 3           \* redirects followed after one navigation

\* ------------------------------------------------------- program constants
TIMEOUT == 30000
RETRY_DELAY == 1000
OK == 200
BAD_REQUEST == 400
UNAUTHORIZED == 401
FORBIDDEN == 403
NOT_FOUND == 404
CONFLICT == 409
INTERNAL_SERVER_ERROR == 500
SERVICE_UNAVAILABLE == 503
\* status of the synthetic ApiError('Request timeout', 408, ...)
TIMEOUT_STATUS == 408

NULL == "<null>"
NoStatus == 0

\* One clock tick is the default timeout.
Tick == TIMEOUT

Slots == {1, 2}
AccessTokens == {"a1", "a2"}
RefreshTokens == {"r1"}
Users == {"u1"}
Timeouts == {TIMEOUT, 2 * TIMEOUT}
RetryDelays == {RETRY_DELAY, 3 * RETRY_DELAY}

\* Statuses a backend (or a proxy in front of it) may answer with.
\* Besides the codes of HTTP_STATUS: 300 (not ok, below 400) and 502 (a 5xx
\* that HTTP_STATUS does not name).
Statuses ==
  {OK, 300, BAD_REQUEST, UNAUTHORIZED, FORBIDDEN, NOT_FOUND, CONFLICT,
   INTERNAL_SERVER_ERROR, 502, SERVICE_UNAVAILABLE}

\* API_CONFIG.RETRY_ATTEMPTS: isProduction ? 2 : 0
RETRY_ATTEMPTS(isProd) == IF isProd THEN 2 ELSE 0

\* Math.pow(2, n)
RECURSIVE Pow2(_)
Pow2(n) == IF n = 0 THEN 1 ELSE 2 * Pow2(n - 1)

\* Response.ok
ResponseOk(status) == status >= 200 /\ status <= 299

\* ----------------------------------------------------------- response body
\* json: response.json() succeeds; error: the envelope's error field ("" when
\* absent); success / hasData / user / token / refreshToken: the envelope.
BadBody ==
  [json |-> FALSE, success |-> FALSE, hasData |-> FALSE, error |-> "",
   user |-> NULL, token |-> NULL, refreshToken |-> NULL]

ErrorBodies ==
  {[json |-> TRUE, success |-> FALSE, hasData |-> FALSE, error |-> e,
    user |-> NULL, token |-> NULL, refreshToken |-> NULL] : e \in {"", "not found"}}

DataBodies ==
  {[json |-> TRUE, success |-> TRUE, hasData |-> TRUE, error |-> "",
    user |-> u, token |-> t, refreshToken |-> rt] :
      u \in Users, t \in AccessTokens, rt \in RefreshTokens \cup {NULL}}

EmptyOkBody ==
  [json |-> TRUE, success |-> TRUE, hasData |-> FALSE, error |-> "",
   user |-> NULL, token |-> NULL, refreshToken |-> NULL]

Bodies == {BadBody, EmptyOkBody} \cup ErrorBodies \cup DataBodies

\* ------------------------------------------------------------------ errors
\* new ApiError(message, status, type)
ApiError(message, status, type) ==
  [name |-> "ApiError", message |-> message, status |-> status, type |-> type]

\* Errors that are not ApiError carry neither status nor type.
PlainError(name, message) ==
  [name |-> name, message |-> message, status |-> NoStatus, type |-> NULL]

NoError == PlainError(NULL, "")

\* ApiClient.getErrorType
getErrorType(status) ==
  CASE status = BAD_REQUEST -> "VALIDATION_ERROR"
    [] status = UNAUTHORIZED -> "AUTHENTICATION_ERROR"
    [] status = FORBIDDEN -> "AUTHORIZATION_ERROR"
    [] status = NOT_FOUND -> "NOT_FOUND_ERROR"
    [] status = INTERNAL_SERVER_ERROR -> "SERVER_ERROR"
    [] status = SERVICE_UNAVAILABLE -> "SERVER_ERROR"
    [] OTHER -> "UNKNOWN_ERROR"

\* data.error || `HTTP ${response.status}`
ErrorMessage(body, status) ==
  IF body.error # "" THEN body.error ELSE "HTTP " \o ToString(status)

\* ------------------------------------------------------------ TokenManager
\* localStorage, restricted to the two keys the application uses.
getToken(ls) == ls.auth_token
setToken(ls, t) == [ls EXCEPT !.auth_token = t]
getRefreshToken(ls) == ls.refresh_token
setRefreshToken(ls, t) == [ls EXCEPT !.refresh_token = t]
clearTokens(ls) == [auth_token |-> NULL, refresh_token |-> NULL]

\* localStorage.removeItem("auth_token"), as the AuthProvider does it
removeAuthToken(ls) == [ls EXCEPT !.auth_token = NULL]

\* ------------------------------------------------------------ interceptors
NoHeaders == [Authorization |-> NULL, ContentType |-> NULL]

\* mutant of AuthInterceptor: the skipAuth test is dropped
AuthInterceptor_IgnoresSkipAuth(ls, skipAuth, headers) ==
  LET t == getToken(ls)
  IN IF t # NULL
       THEN [headers EXCEPT !.Authorization = "Bearer " \o t]
       ELSE headers

\* the default auth interceptor registered by the ApiClient constructor
AuthInterceptor(ls, skipAuth, headers) ==
  IF ~skipAuth
    THEN LET t == getToken(ls)
         IN IF t # NULL
              THEN [headers EXCEPT !.Authorization = "Bearer " \o t]
              ELSE headers
    ELSE headers

\* finalConfig.headers = {'Content-Type': 'application/json', ...headers}
DefaultHeaders(headers) ==
  IF headers.ContentType = NULL
    THEN [headers EXCEPT !.ContentType = "application/json"]
    ELSE headers

\* ------------------------------------------------------ one logical request
\* pc: idle | fetching (fetch pending, timer armed) | reading (fetch resolved,
\* timer cleared, response.json() pending) | sleeping (backoff) | done
IdleReq ==
  [pc |-> "idle", op |-> NULL, skipAuth |-> FALSE, retries |-> 0,
   retryDelay |-> RETRY_DELAY, timeout |-> TIMEOUT, headers |-> NoHeaders,
   attempt |-> 0, status |-> NoStatus, lastError |-> NoError,
   outcome |-> "pending", ret |-> BadBody, delays |-> << >>, local |-> NULL]

\* makeRequest up to the first fetch: interceptors, default headers, attempt 0
NewRequest(ls, op, skipAuth, retries, retryDelay, timeout, local) ==
  [IdleReq EXCEPT
     !.pc = "fetching", !.op = op, !.skipAuth = skipAuth, !.retries = retries,
     !.retryDelay = retryDelay, !.timeout = timeout, !.local = local,
     !.headers = DefaultHeaders(AuthInterceptor(ls, skipAuth, NoHeaders))]

\* the promise of makeRequest rejects with e
Thrown(q, e) ==
  [q EXCEPT !.pc = "done", !.outcome = "thrown", !.lastError = e,
            !.status = NoStatus]

\* the promise of makeRequest resolves with the parsed body
Returned(q, body) ==
  [q EXCEPT !.pc = "done", !.outcome = "returned", !.ret = body,
            !.status = NoStatus]

\* (variant: the catch block without the `attempt === retries` check)
Catch_AlwaysRetries(q, error) ==
  IF error.name = "ApiError" /\ error.status >= 400 /\ error.status < 500
    THEN Thrown(q, error)
    ELSE [q EXCEPT !.pc = "sleeping", !.lastError = error, !.status = NoStatus,
                   !.delays = Append(@, q.retryDelay * Pow2(q.attempt))]

\* the catch block of the retry loop, entered with `error`
Catch(q, error) ==
  LET lastError ==
        IF error.name = "AbortError"
          THEN ApiError("Request timeout", TIMEOUT_STATUS, "TIMEOUT_ERROR")
          ELSE error
  IN IF error.name = "ApiError" /\ error.status >= 400 /\ error.status < 500
       THEN Thrown(q, error)
     ELSE IF q.attempt = q.retries
       THEN Thrown(q, lastError)
     ELSE [q EXCEPT !.pc = "sleeping", !.lastError = lastError,
                    !.status = NoStatus,
                    !.delays = Append(@, q.retryDelay * Pow2(q.attempt))]

\* (variant: response.ok is examined before the body is parsed)
ReadBody_StatusFirst(q, body) ==
  IF ~ResponseOk(q.status)
    THEN Catch(q, ApiError(ErrorMessage(body, q.status), q.status,
                           getErrorType(q.status)))
  ELSE IF ~body.json
    THEN Catch(q, PlainError("SyntaxError", "Unexpected token"))
  ELSE Returned(q, body)

\* the try block from `await response.json()` on, for a response with q.status
ReadBody(q, body) ==
  IF ~body.json
    THEN Catch(q, PlainError("SyntaxError", "Unexpected token"))
  ELSE IF ~ResponseOk(q.status)
    THEN Catch(q, ApiError(ErrorMessage(body, q.status), q.status,
                           getErrorType(q.status)))
  ELSE Returned(q, body)

\* the timer set by setTimeout(() => controller.abort(), timeout) is due
\* when the attempt has been in flight for `elapsed` ticks; clearTimeout has
\* run once fetch has resolved
TimerDue(q, elapsed) == q.pc = "fetching" /\ elapsed * Tick >= q.timeout

\* ---------------------------------------------------- callers of makeRequest
\* `response.success && response.data` on a settled request
Succeeded(q) == q.outcome = "returned" /\ q.ret.success /\ q.ret.hasData

\* ApiClient.login after `await this.post('/auth/login', ...)`
ApiLoginThen(ls, q) ==
  IF Succeeded(q)
    THEN LET a == setToken(ls, q.ret.token)
         IN IF q.ret.refreshToken # NULL
              THEN setRefreshToken(a, q.ret.refreshToken)
              ELSE a
    ELSE ls

\* (variant: a successful refresh also stores the refresh token of the
\* response, as login does)
RefreshThen_Rotates(ls, q) ==
  IF Succeeded(q) THEN ApiLoginThen(ls, q) ELSE clearTokens(ls)

\* ApiClient.refreshToken after `await this.post('/auth/refresh', ...)`:
\* the token store
RefreshThen(ls, q) ==
  IF Succeeded(q) THEN setToken(ls, q.ret.token) ELSE clearTokens(ls)

\* ApiClient.refreshToken after the post: what the caller gets
RefreshResult(q) ==
  IF q.outcome = "returned" /\ ~Succeeded(q)
    THEN Thrown(q, PlainError("Error", "Failed to refresh token"))
    ELSE q

\* AuthProvider state
isAuthenticated(a) == a.user # NULL /\ a.token # NULL

\* (variant: the public route renders its children for a signed-in user too)
AuthGuard_PublicOpen(a, requireAuth) ==
  IF a.isLoading THEN "Loading"
  ELSE IF requireAuth /\ ~isAuthenticated(a) THEN "/auth"
  ELSE "children"

\* AuthGuard: what a guarded route renders
AuthGuard(a, requireAuth) ==
  IF a.isLoading THEN "Loading"
  ELSE IF requireAuth /\ ~isAuthenticated(a) THEN "/auth"
  ELSE IF ~requireAuth /\ isAuthenticated(a) THEN "/businesses"
  ELSE "children"

\* AuthProvider.login(userData, authToken): the context state
AuthLogin(a, userData, authToken) ==
  [a EXCEPT !.user = userData, !.token = authToken]

\* mutant of AuthLoginStore: the token is kept in the context state only
AuthLoginStore_NotPersisted(ls, authToken) == ls

\* AuthProvider.login(userData, authToken): localStorage
AuthLoginStore(ls, authToken) == [ls EXCEPT !.auth_token = authToken]

\* mutant of AuthLogout: the user is kept
AuthLogout_KeepsUser(a) == [a EXCEPT !.token = NULL]

\* AuthProvider.logout: the context state
AuthLogout(a) == [a EXCEPT !.user = NULL, !.token = NULL]

\* AdminLogin.handleSubmit after `await authService.login(formData)`, with
\* AuthPage.handleLoginSuccess: the context state
SubmitThenAuth(a, q) ==
  IF Succeeded(q) THEN AuthLogin(a, q.ret.user, q.ret.token) ELSE a

\* the same: localStorage
SubmitThenStore(ls, q) ==
  IF Succeeded(q) THEN AuthLoginStore(ls, q.ret.token) ELSE ls

\* checkAuth after `await authService.getProfile()`: the context state;
\* q.local is storedToken
CheckAuthThenAuth(a, q) ==
  [(IF Succeeded(q) THEN [a EXCEPT !.user = q.ret.user, !.token = q.local]
                    ELSE a)
     EXCEPT !.isLoading = FALSE]

\* the same: localStorage
CheckAuthThenStore(ls, q) ==
  IF Succeeded(q) THEN ls ELSE removeAuthToken(ls)

\* (variant: the caller of a plain request clears the tokens on a 401)
StoreAfter_ClearsOn401(ls, q) ==
  CASE q.op = "login" -> ApiLoginThen(ls, q)
    [] q.op = "refreshToken" -> RefreshThen(ls, q)
    [] q.op = "handleSubmit" -> SubmitThenStore(ls, q)
    [] q.op = "checkAuth" -> CheckAuthThenStore(ls, q)
    [] q.op = "request" /\ q.outcome = "thrown"
         /\ q.lastError.status = UNAUTHORIZED -> clearTokens(ls)
    [] OTHER -> ls

\* what the caller of makeRequest does with localStorage once q has settled
StoreAfter(ls, q) ==
  CASE q.op = "login" -> ApiLoginThen(ls, q)
    [] q.op = "refreshToken" -> RefreshThen(ls, q)
    [] q.op = "handleSubmit" -> SubmitThenStore(ls, q)
    [] q.op = "checkAuth" -> CheckAuthThenStore(ls, q)
    [] OTHER -> ls

\* what the caller of makeRequest does with the AuthProvider state
AuthAfter(a, q) ==
  CASE q.op = "handleSubmit" -> SubmitThenAuth(a, q)
    [] q.op = "checkAuth" -> CheckAuthThenAuth(a, q)
    [] OTHER -> a

\* what the caller of the operation finally observes
ResultAfter(q) == IF q.op = "refreshToken" THEN RefreshResult(q) ELSE q

\* ------------------------------------------------- businesses and their cache
\* The backend holds at most one business per id; a business is its id and its
\* status, the one attribute the hooks patch.
Ids == {1, 2}
BusinessStatus == {"active", "inactive"}
Business(id, status) == [id |-> id, status |-> status]

\* the two hook modules: hooks/use-businesses.ts and hooks/useBusinesses.ts
HookModules == {"use-businesses", "useBusinesses"}

\* the mutations each module exports for businesses
MutationKinds(hook) ==
  IF hook = "use-businesses"
    THEN {"create", "update", "delete", "bulkDelete", "bulkStatus"}
    ELSE {"create", "update", "delete"}

AllKinds == UNION {MutationKinds(hook) : hook \in HookModules}

\* businessKeys.lists() and businessKeys.detail(id), as keys of the cache
lists == 0
detail(id) == id

Keys == {lists} \cup {detail(id) : id \in Ids}

\* A query of the QueryClient's cache. has: the query holds data; data: a
\* sequence of businesses (of length one for a detail query); isInvalidated:
\* the flag set by invalidateQueries; obs: a mounted useQuery observes it;
\* fetch: idle | pending (request sent) | answered (response on its way);
\* resp, respOk: that response.
AbsentQuery ==
  [has |-> FALSE, data |-> << >>, isInvalidated |-> FALSE, obs |-> FALSE,
   fetch |-> "idle", resp |-> << >>, respOk |-> FALSE]

\* GET /businesses as the backend answers it: the businesses by id
ServerList(server) ==
  SelectSeq([i \in 1 .. Cardinality(Ids) |-> Business(i, server[i])],
            LAMBDA b : b.status # NULL)

\* GET /businesses/:id
ServerDetail(server, id) ==
  IF server[id] = NULL THEN << >> ELSE <<Business(id, server[id])>>

\* queryClient.setQueryData(key, updater): the updater's result becomes the
\* data of the query, which is created when missing and is fresh afterwards
setQueryData(cache, key, data) ==
  [cache EXCEPT ![key].has = TRUE, ![key].data = data,
                ![key].isInvalidated = FALSE]

\* `(old: Business[] = []) => ...`: what an updater of the list is given
OldList(cache) == IF cache[lists].has THEN cache[lists].data ELSE << >>

\* invalidateQueries refetches the observed queries it matches; a fetch in
\* flight is cancelled for the new one only when the query already holds
\* data, otherwise the fetch in flight is kept
Refetched(query) == query.obs /\ (query.fetch = "idle" \/ query.has)

\* the query is in the cache: it was written, or a useQuery built it
InCache(query) == query.has \/ query.obs \/ query.fetch # "idle"

\* queryClient.invalidateQueries({queryKey}) for one key: a query of the
\* cache is marked invalidated, and an observed query is refetched
invalidateQueries(cache, key) ==
  [cache EXCEPT
     ![key].isInvalidated = IF InCache(cache[key]) THEN TRUE ELSE @,
     ![key].fetch = IF Refetched(cache[key]) THEN "pending" ELSE @,
     ![key].resp = IF Refetched(cache[key]) THEN << >> ELSE @,
     ![key].respOk = IF Refetched(cache[key]) THEN FALSE ELSE @]

\* queryClient.removeQueries({queryKey}) for one key: the query leaves the
\* cache, its fetch in flight is dropped
removeQueries(cache, key) ==
  [cache EXCEPT ![key] = [AbsentQuery EXCEPT !.obs = cache[key].obs]]

\* ids.forEach(id => queryClient.invalidateQueries(detail(id)))
RECURSIVE invalidateEach(_, _)
invalidateEach(cache, ids) ==
  IF ids = {} THEN cache
  ELSE LET id == CHOOSE i \in ids : TRUE
       IN invalidateEach(invalidateQueries(cache, detail(id)), ids \ {id})

\* ids.forEach(id => queryClient.removeQueries(detail(id)))
RECURSIVE removeEach(_, _)
removeEach(cache, ids) ==
  IF ids = {} THEN cache
  ELSE LET id == CHOOSE i \in ids : TRUE
       IN removeEach(removeQueries(cache, detail(id)), ids \ {id})

\* old.map(business => business.id === id ? updatedBusiness : business)
MapUpdated(list, id, updatedBusiness) ==
  [i \in 1 .. Len(list) |-> IF list[i].id = id THEN updatedBusiness ELSE list[i]]

\* old.map(business => ids.includes(business.id) ? {...business, status}
\*                                                : business)
MapStatus(list, ids, status) ==
  [i \in 1 .. Len(list) |->
     IF list[i].id \in ids THEN [list[i] EXCEPT !.status = status] ELSE list[i]]

\* onSuccess of the mutations of hooks/use-businesses.ts
useCreateBusiness_onSuccess(cache, newBusiness) ==
  invalidateQueries(
    setQueryData(cache, lists, Append(OldList(cache), newBusiness)), lists)

useUpdateBusiness_onSuccess(cache, id, updatedBusiness) ==
  LET c == setQueryData(cache, detail(id), <<updatedBusiness>>)
  IN setQueryData(c, lists,
       MapUpdated(OldList(c), id, updatedBusiness))

useDeleteBusiness_onSuccess(cache, deletedId) ==
  removeQueries(
    setQueryData(cache, lists,
                 SelectSeq(OldList(cache), LAMBDA b : b.id # deletedId)),
    detail(deletedId))

useBulkDeleteBusinesses_onSuccess(cache, ids) ==
  removeEach(
    setQueryData(cache, lists,
                 SelectSeq(OldList(cache), LAMBDA b : b.id \notin ids)),
    ids)

\* (variant: the list is patched, no detail entry is invalidated)
useBulkUpdateBusinessStatus_ListOnly(cache, ids, status) ==
  setQueryData(cache, lists, MapStatus(OldList(cache), ids, status))

useBulkUpdateBusinessStatus_onSuccess(cache, ids, status) ==
  invalidateEach(
    setQueryData(cache, lists, MapStatus(OldList(cache), ids, status)),
    ids)

\* onSuccess of the mutations of hooks/useBusinesses.ts
useCreateBusiness2_onSuccess(cache) == invalidateQueries(cache, lists)

useUpdateBusiness2_onSuccess(cache, id) ==
  invalidateQueries(invalidateQueries(cache, lists), detail(id))

useDeleteBusiness2_onSuccess(cache) == invalidateQueries(cache, lists)

\* a mutation: pc is idle | pending (request sent) | answered (response on
\* its way); ids, status: its variables; ok, data: the response; report: the
\* toast of the latest mutation that has settled ("none" while one runs);
\* count: the mutations started so far
IdleMutation ==
  [pc |-> "idle", hook |-> NULL, kind |-> NULL, ids |-> {}, status |-> NULL,
   ok |-> FALSE, data |-> << >>, report |-> "none", count |-> 0]

\* the onSuccess callback of the settled mutation m
OnSuccess(cache, m) ==
  LET id == CHOOSE i \in m.ids : TRUE
  IN IF m.hook = "use-businesses"
       THEN CASE m.kind = "create" ->
                   useCreateBusiness_onSuccess(cache, m.data[1])
              [] m.kind = "update" ->
                   useUpdateBusiness_onSuccess(cache, id, m.data[1])
              [] m.kind = "delete" -> useDeleteBusiness_onSuccess(cache, id)
              [] m.kind = "bulkDelete" ->
                   useBulkDeleteBusinesses_onSuccess(cache, m.ids)
              [] m.kind = "bulkStatus" ->
                   useBulkUpdateBusinessStatus_onSuccess(cache, m.ids, m.status)
       ELSE CASE m.kind = "create" -> useCreateBusiness2_onSuccess(cache)
              [] m.kind = "update" -> useUpdateBusiness2_onSuccess(cache, id)
              [] m.kind = "delete" -> useDeleteBusiness2_onSuccess(cache)

\* (variant: the error callback invalidates the list)
OnError_Invalidates(cache, m) == invalidateQueries(cache, lists)

\* the onError callback of the settled mutation m: a toast, no cache call
OnError(cache, m) == cache

\* the id the backend gives to the next business it creates
NextId(server) == CHOOSE i \in Ids : server[i] = NULL /\ \A j \in Ids : server[j] = NULL => i <= j

\* ------------------------------------------------------------ useApi hooks
Hooks == {1, 2}

\* the status of an ApiError a call may reject with (500 also stands for an
\* error that is not an ApiError, which execute wraps as status 500)
CallErrors == {BAD_REQUEST, INTERNAL_SERVER_ERROR}

\* useState's value: data and error carry the number of the call that
\* produced them (0: null)
ApiState(data, loading, error, success) ==
  [data |-> data, loading |-> loading, error |-> error, success |-> success]

NoApiError == [status |-> NoStatus, call |-> 0]

InitialApiState == ApiState(0, FALSE, NoApiError, FALSE)

\* A useApi hook. alive: the component is mounted; config: retry, retryCount,
\* retryDelay; state: the useState value; controller: abortControllerRef
\* (null | live | aborted: the signal of the controller the ref holds);
\* retryCountRef; issued: apiCall() invocations so far; calls: those still
\* pending; timers: the pending setTimeout(execute) delays, in the order they
\* were set; cancelled: cancel() ran and the component has not called
\* execute() since.
UnmountedHook ==
  [alive |-> FALSE, retry |-> FALSE, retryCount |-> 0, retryDelay |-> RETRY_DELAY,
   state |-> InitialApiState, controller |-> "null", retryCountRef |-> 0,
   issued |-> 0, calls |-> {}, timers |-> << >>, cancelled |-> FALSE]

\* setState of a mounted component; React drops the update of an unmounted one
setState(hook, state) == IF hook.alive THEN [hook EXCEPT !.state = state] ELSE hook

\* execute() up to `await apiCall()`: the previous controller is aborted and
\* replaced, loading is set, the call is issued
execute(hook) ==
  LET h == setState(hook, [hook.state EXCEPT !.loading = TRUE,
                                             !.error = NoApiError,
                                             !.success = FALSE])
  IN [h EXCEPT !.controller = "live", !.issued = @ + 1,
               !.calls = @ \cup {hook.issued + 1}]

\* execute() after `await apiCall()` has resolved for call c: the early
\* return reads the controller the ref holds now
executeThen(hook, c) ==
  LET h == [hook EXCEPT !.calls = @ \ {c}]
  IN IF h.controller = "aborted" THEN h
     ELSE [setState(h, ApiState(c, FALSE, NoApiError, TRUE))
             EXCEPT !.retryCountRef = 0]

\* the catch block of execute() for call c rejected with `status`
executeCatch(hook, c, status) ==
  LET h == [hook EXCEPT !.calls = @ \ {c}]
  IN IF h.controller = "aborted" THEN h
     ELSE IF h.retry /\ h.retryCountRef < h.retryCount /\ status >= 500
       THEN [h EXCEPT !.retryCountRef = @ + 1,
                      !.timers = Append(@, h.retryDelay * Pow2(h.retryCountRef))]
     ELSE [setState(h, ApiState(0, FALSE, [status |-> status, call |-> c], FALSE))
             EXCEPT !.retryCountRef = 0]

\* cancel(): the controller the ref holds is aborted, loading is reset
cancel(hook) ==
  LET h == [hook EXCEPT !.controller = IF @ = "null" THEN @ ELSE "aborted"]
  IN setState(h, [h.state EXCEPT !.loading = FALSE])

\* reset()
reset(hook) == [setState(hook, InitialApiState) EXCEPT !.retryCountRef = 0]

\* -------------------------------------------------------------------- routes
Paths == {"/", "/auth", "/businesses", "/other"}

StartNav == [path |-> "/", hops |-> 0]

\* <Routes>: what the router renders at `path` for the context a: the
\* spinner, a <Navigate to>, the AuthPage or the protected page
Render(path, a) ==
  LET guard == AuthGuard(a, path = "/businesses")
  IN IF path \notin {"/auth", "/businesses"}
       THEN [kind |-> "Navigate", to |-> "/businesses"]
     ELSE IF guard = "Loading" THEN [kind |-> "Loading", to |-> path]
     ELSE IF guard # "children" THEN [kind |-> "Navigate", to |-> guard]
     ELSE [kind |-> IF path = "/auth" THEN "AuthPage" ELSE "Protected",
           to |-> path]

\* ------------------------------------------------------------------- state
VARIABLES
  ls,            \* localStorage: auth_token, refresh_token
  auth,          \* AuthProvider: user, token, isLoading
  mounted,       \* the AuthProvider's mount effect has run
  req,           \* the logical requests, one per slot
  clock,         \* per slot: ticks the attempt in flight has lasted
  hist,          \* per slot: how the attempts made so far ended
  tm,            \* the latest TokenManager mutator calls
  session,       \* the latest successful login and what touched the token since
  server,        \* the backend's businesses: per id its status, or NULL
  qc,            \* the QueryClient's cache: per key its query
  mu,            \* the business mutation in flight and the latest toast
  api,           \* the mounted useApi hooks, one per hook
  nav            \* the router: the current path

requestVars == <<ls, auth, mounted, req, clock, hist, tm, session>>
cacheVars == <<server, qc, mu>>
uiVars == <<api, nav>>
vars ==
  <<ls, auth, mounted, req, clock, hist, tm, session, server, qc, mu, api, nav>>

\* all5xx: every attempt so far got a response with a 5xx status; allAbort:
\* every attempt so far was aborted by its timer; cause, status: how the
\* current attempt ended ("none" while its fetch is pending)
NoHist ==
  [all5xx |-> TRUE, allAbort |-> TRUE, cause |-> "none", status |-> NoStatus]

\* a slot no operation is ever started in
OffReq == [IdleReq EXCEPT !.pc = "off"]

Stores ==
  [auth_token : AccessTokens \cup {NULL},
   refresh_token : RefreshTokens \cup {NULL}]

InitWith(slots) ==
  /\ ls \in Stores
  /\ auth = [user |-> NULL, token |-> NULL, isLoading |-> TRUE]
  /\ mounted = FALSE
  /\ req = [r \in Slots |-> IF r \in slots THEN IdleReq ELSE OffReq]
  /\ clock = [r \in Slots |-> 0]
  /\ hist = [r \in Slots |-> NoHist]
  /\ tm = [lastSet |-> NULL, cleared |-> FALSE]
  /\ session = [token |-> NULL, touched |-> FALSE]
  /\ server = [id \in Ids |-> NULL]
  /\ qc = [key \in Keys |-> AbsentQuery]
  /\ mu = IdleMutation
  /\ api = [h \in Hooks |-> UnmountedHook]
  /\ nav = StartNav

Init == InitWith({1})

Free(r) == req[r].pc \in {"idle", "done"}

InFlight(q) == q.pc \in {"fetching", "reading"}

Is5xx(status) == status >= 500 /\ status <= 599

\* API_CONFIG.RETRY_ATTEMPTS in a production and in a development build
DefaultRetries == {RETRY_ATTEMPTS(isProd) : isProd \in BOOLEAN}

\* the TokenManager calls made by the caller of a settled request: lastSet is
\* x while setToken(x) is the latest setToken/clearTokens call, cleared holds
\* while clearTokens() is the latest write of either key
TmAfter(t, q) ==
  CASE q.op = "login" /\ Succeeded(q) ->
         [lastSet |-> q.ret.token, cleared |-> FALSE]
    [] q.op = "refreshToken" /\ Succeeded(q) ->
         [lastSet |-> q.ret.token, cleared |-> FALSE]
    [] q.op = "refreshToken" /\ ~Succeeded(q) ->
         [lastSet |-> NULL, cleared |-> TRUE]
    [] q.op = "handleSubmit" /\ Succeeded(q) -> [t EXCEPT !.cleared = FALSE]
    [] OTHER -> t

\* the login the session rests on, after the caller of a settled request ran:
\* token is the token of the latest successful login since the last logout,
\* touched says that refreshToken or a failed startup validation has rewritten
\* the stored access token since that login
SessionAfter(s, q) ==
  CASE q.op \in {"login", "handleSubmit"} /\ Succeeded(q) ->
         [token |-> q.ret.token, touched |-> FALSE]
    [] q.op = "refreshToken" /\ s.token # NULL -> [s EXCEPT !.touched = TRUE]
    [] q.op = "checkAuth" /\ ~Succeeded(q) /\ s.token # NULL ->
         [s EXCEPT !.touched = TRUE]
    [] OTHER -> s

\* slot r starts the logical request q
Begin(r, q) ==
  /\ Free(r)
  /\ req' = [req EXCEPT ![r] = q]
  /\ clock' = [clock EXCEPT ![r] = 0]
  /\ hist' = [hist EXCEPT ![r] = NoHist]

\* slot r moves to `after`; once it has settled its caller continues at once
Settle(r, after) ==
  /\ clock' = [clock EXCEPT ![r] = 0]
  /\ IF after.pc = "done"
       THEN /\ req' = [req EXCEPT ![r] = ResultAfter(after)]
            /\ ls' = StoreAfter(ls, after)
            /\ auth' = AuthAfter(auth, after)
            /\ tm' = TmAfter(tm, after)
            /\ session' = SessionAfter(session, after)
       ELSE /\ req' = [req EXCEPT ![r] = after]
            /\ UNCHANGED <<ls, auth, tm, session>>

\* ----------------------------------------------------------------- actions
\* the AuthProvider's mount effect: checkAuth up to its first await
Mount ==
  /\ ~mounted
  /\ mounted' = TRUE
  /\ IF ls.auth_token # NULL
       THEN /\ \E r \in Slots, retries \in DefaultRetries :
                 Begin(r, NewRequest(ls, "checkAuth", FALSE, retries,
                                     RETRY_DELAY, TIMEOUT, ls.auth_token))
            /\ UNCHANGED auth
       ELSE /\ auth' = [auth EXCEPT !.isLoading = FALSE]
            /\ UNCHANGED <<req, clock, hist>>
  /\ UNCHANGED <<ls, tm, session>>
  /\ UNCHANGED cacheVars
  /\ UNCHANGED uiVars

\* a service or hook calls apiClient.get/post/put/patch/delete with a config
\* drawn from the given sets; no component runs before the AuthProvider's
\* mount effect
Request(r, skips, retriesSet, delays, timeouts) ==
  /\ mounted
  /\ \E skipAuth \in skips, retries \in retriesSet,
        retryDelay \in delays, timeout \in timeouts :
       Begin(r, NewRequest(ls, "request", skipAuth, retries, retryDelay,
                           timeout, NULL))
  /\ UNCHANGED <<ls, auth, mounted, tm, session>>
  /\ UNCHANGED cacheVars
  /\ UNCHANGED uiVars

\* ApiClient.login up to its await
ApiLogin(r) ==
  /\ mounted
  /\ \E retries \in DefaultRetries :
       Begin(r, NewRequest(ls, "login", TRUE, retries, RETRY_DELAY, TIMEOUT,
                           NULL))
  /\ UNCHANGED <<ls, auth, mounted, tm, session>>
  /\ UNCHANGED cacheVars
  /\ UNCHANGED uiVars

\* AdminLogin.handleSubmit up to its await; the form is rendered by AuthGuard
\* (requireAuth = false) only when the context is neither loading nor
\* authenticated
HandleSubmit(r) ==
  /\ ~auth.isLoading /\ ~isAuthenticated(auth)
  /\ \E retries \in DefaultRetries :
       Begin(r, NewRequest(ls, "handleSubmit", TRUE, retries, RETRY_DELAY,
                           TIMEOUT, NULL))
  /\ UNCHANGED <<ls, auth, mounted, tm, session>>
  /\ UNCHANGED cacheVars
  /\ UNCHANGED uiVars

\* ApiClient.refreshToken up to its await, or its throw when no refresh token
\* is stored
RefreshToken(r) ==
  /\ mounted
  /\ IF getRefreshToken(ls) = NULL
       THEN Begin(r, Thrown([IdleReq EXCEPT !.op = "refreshToken"],
                            ApiError("No refresh token available",
                                     UNAUTHORIZED, "AUTHENTICATION_ERROR")))
       ELSE \E retries \in DefaultRetries :
              Begin(r, NewRequest(ls, "refreshToken", TRUE, retries,
                                  RETRY_DELAY, TIMEOUT, getRefreshToken(ls)))
  /\ UNCHANGED <<ls, auth, mounted, tm, session>>
  /\ UNCHANGED cacheVars
  /\ UNCHANGED uiVars

\* one refreshToken() call up to its await (or its throw), with `store` as
\* localStorage
RefreshCall(store, retries) ==
  IF getRefreshToken(store) = NULL
    THEN Thrown([IdleReq EXCEPT !.op = "refreshToken"],
                ApiError("No refresh token available", UNAUTHORIZED,
                         "AUTHENTICATION_ERROR"))
    ELSE NewRequest(store, "refreshToken", TRUE, retries, RETRY_DELAY, TIMEOUT,
                    getRefreshToken(store))

\* refreshToken() is called twice in immediate succession: both calls run up
\* to their await before any response arrives, one per slot
RefreshTwice ==
  /\ mounted
  /\ \A r \in Slots : Free(r)
  /\ \E retries \in DefaultRetries :
       req' = [r \in Slots |-> RefreshCall(ls, retries)]
  /\ clock' = [r \in Slots |-> 0]
  /\ hist' = [r \in Slots |-> NoHist]
  /\ UNCHANGED <<ls, auth, mounted, tm, session>>
  /\ UNCHANGED cacheVars
  /\ UNCHANGED uiVars

\* ApiClient.logout
ApiLogout ==
  /\ mounted
  /\ ls' = clearTokens(ls)
  /\ tm' = [lastSet |-> NULL, cleared |-> TRUE]
  /\ session' = [token |-> NULL, touched |-> FALSE]
  /\ UNCHANGED <<auth, mounted, req, clock, hist>>
  /\ UNCHANGED cacheVars
  /\ UNCHANGED uiVars

\* AuthProvider.logout, called from the header of the protected page
Logout ==
  /\ ~auth.isLoading /\ isAuthenticated(auth)
  /\ auth' = AuthLogout(auth)
  /\ ls' = removeAuthToken(ls)
  /\ session' = [token |-> NULL, touched |-> FALSE]
  /\ UNCHANGED <<mounted, req, clock, hist, tm>>
  /\ UNCHANGED cacheVars
  /\ UNCHANGED uiVars

\* a consumer of useAuth() calls login(userData, authToken); the provider's
\* value is available to its children from the first render on
UseAuthLogin(userData, authToken) ==
  /\ mounted
  /\ auth' = AuthLogin(auth, userData, authToken)
  /\ ls' = AuthLoginStore(ls, authToken)
  /\ tm' = [tm EXCEPT !.cleared = FALSE]
  /\ session' = [token |-> authToken, touched |-> FALSE]
  /\ UNCHANGED <<mounted, req, clock, hist>>
  /\ UNCHANGED cacheVars
  /\ UNCHANGED uiVars

\* a consumer of useAuth() calls logout()
UseAuthLogout ==
  /\ mounted
  /\ auth' = AuthLogout(auth)
  /\ ls' = removeAuthToken(ls)
  /\ session' = [token |-> NULL, touched |-> FALSE]
  /\ UNCHANGED <<mounted, req, clock, hist, tm>>
  /\ UNCHANGED cacheVars
  /\ UNCHANGED uiVars

\* a consumer of useAuth() calls updateUser(userData)
UpdateUser(userData) ==
  /\ mounted
  /\ auth' = [auth EXCEPT !.user = userData]
  /\ UNCHANGED <<ls, mounted, req, clock, hist, tm, session>>
  /\ UNCHANGED cacheVars
  /\ UNCHANGED uiVars

\* fetch resolves with a response whose status is in `statuses`; clearTimeout
FetchResolve(r, statuses) ==
  /\ req[r].pc = "fetching"
  /\ \E status \in statuses :
       /\ req' = [req EXCEPT ![r].pc = "reading", ![r].status = status]
       /\ hist' = [hist EXCEPT ![r] =
                     [all5xx |-> @.all5xx /\ Is5xx(status), allAbort |-> FALSE,
                      cause |-> "response", status |-> status]]
  /\ UNCHANGED <<ls, auth, mounted, clock, tm, session>>
  /\ UNCHANGED cacheVars
  /\ UNCHANGED uiVars

\* fetch rejects: no response (connection refused, DNS, CORS, offline)
FetchReject(r) ==
  /\ req[r].pc = "fetching"
  /\ hist' = [hist EXCEPT ![r] =
                [all5xx |-> FALSE, allAbort |-> FALSE, cause |-> "transport",
                 status |-> NoStatus]]
  /\ Settle(r, Catch(req[r], PlainError("TypeError", "Failed to fetch")))
  /\ UNCHANGED mounted
  /\ UNCHANGED cacheVars
  /\ UNCHANGED uiVars

\* the timer fires: controller.abort() makes the pending fetch reject
Abort(r) ==
  /\ TimerDue(req[r], clock[r])
  /\ hist' = [hist EXCEPT ![r] =
                [all5xx |-> FALSE, allAbort |-> @.allAbort, cause |-> "abort",
                 status |-> NoStatus]]
  /\ Settle(r, Catch(req[r], PlainError("AbortError", "The operation was aborted")))
  /\ UNCHANGED mounted
  /\ UNCHANGED cacheVars
  /\ UNCHANGED uiVars

\* response.json() settles on a body in `bodies`
BodyRead(r, bodies) ==
  /\ req[r].pc = "reading"
  /\ \E body \in bodies : Settle(r, ReadBody(req[r], body))
  /\ UNCHANGED <<mounted, hist>>
  /\ UNCHANGED cacheVars
  /\ UNCHANGED uiVars

\* time passes for the attempt in flight; a due timer fires first
ClockTick(r) ==
  /\ InFlight(req[r])
  /\ ~TimerDue(req[r], clock[r])
  /\ clock[r] < MaxClock
  /\ clock' = [clock EXCEPT ![r] = @ + 1]
  /\ UNCHANGED <<ls, auth, mounted, req, hist, tm, session>>
  /\ UNCHANGED cacheVars
  /\ UNCHANGED uiVars

\* (variant: the interceptors run again for every attempt)
SleepDone_ReadsToken(r) ==
  /\ req[r].pc = "sleeping"
  /\ req' = [req EXCEPT ![r].pc = "fetching", ![r].attempt = @ + 1,
                        ![r].lastError = NoError,
                        ![r].headers =
                          DefaultHeaders(AuthInterceptor(ls, req[r].skipAuth,
                                                         NoHeaders))]
  /\ hist' = [hist EXCEPT ![r].cause = "none", ![r].status = NoStatus]
  /\ UNCHANGED <<ls, auth, mounted, clock, tm, session>>
  /\ UNCHANGED cacheVars
  /\ UNCHANGED uiVars

\* the backoff sleep ends: next iteration of the retry loop. lastError is not
\* read again before the catch block assigns it, so its value is dropped here.
SleepDone(r) ==
  /\ req[r].pc = "sleeping"
  /\ req' = [req EXCEPT ![r].pc = "fetching", ![r].attempt = @ + 1,
                        ![r].lastError = NoError]
  /\ hist' = [hist EXCEPT ![r].cause = "none", ![r].status = NoStatus]
  /\ UNCHANGED <<ls, auth, mounted, clock, tm, session>>
  /\ UNCHANGED cacheVars
  /\ UNCHANGED uiVars

\* ------------------------------------------------------ business mutations
\* a component calls mutateAsync of one of the business mutations; the list
\* the hooks keep is followed up to MaxList entries
Mutate(hook, kind, ids, status) ==
  /\ mu.pc = "idle"
  /\ mu.count < MaxMutations
  /\ kind \in MutationKinds(hook)
  /\ CASE kind = "create" ->
            ids = {} /\ status # NULL /\ Len(OldList(qc)) < MaxList
       [] kind = "update" -> Cardinality(ids) = 1 /\ status # NULL
       [] kind = "delete" -> Cardinality(ids) = 1 /\ status = NULL
       [] kind = "bulkDelete" -> ids # {} /\ status = NULL
       [] kind = "bulkStatus" -> ids # {} /\ status # NULL
  /\ mu' = [IdleMutation EXCEPT !.pc = "pending", !.hook = hook, !.kind = kind,
                                !.ids = ids, !.status = status,
                                !.count = mu.count + 1]
  /\ UNCHANGED <<server, qc>>
  /\ UNCHANGED requestVars
  /\ UNCHANGED uiVars

\* what the backend holds after it has carried out the mutation m on the
\* businesses `done` (for a bulk operation those of m.ids it did not fail on)
ServerAfter(m, done) ==
  CASE m.kind = "create" -> [server EXCEPT ![NextId(server)] = m.status]
    [] m.kind \in {"update", "bulkStatus"} ->
         [id \in Ids |-> IF id \in done THEN m.status ELSE server[id]]
    [] m.kind \in {"delete", "bulkDelete"} ->
         [id \in Ids |-> IF id \in done THEN NULL ELSE server[id]]

\* the business in the response to a create or an update
ResponseData(m) ==
  CASE m.kind = "create" -> <<Business(NextId(server), m.status)>>
    [] m.kind = "update" -> <<Business(CHOOSE i \in m.ids : TRUE, m.status)>>
    [] OTHER -> << >>

\* the backend can carry out the mutation m
Accepts(m) ==
  CASE m.kind = "create" -> \E i \in Ids : server[i] = NULL
    [] m.kind \in {"update", "delete"} -> \A i \in m.ids : server[i] # NULL
    [] OTHER -> TRUE

\* the backend answers the mutation: it carries it out and confirms it, or
\* the request fails (mutationFn will throw) with or without the change
\* having been made
MutationAnswer ==
  /\ mu.pc = "pending"
  /\ \/ /\ Accepts(mu)
        /\ \E done \in SUBSET {i \in mu.ids : server[i] # NULL}, ok \in BOOLEAN :
             /\ mu.kind \in {"update", "delete"} => done = mu.ids
             /\ server' = ServerAfter(mu, done)
             /\ mu' = [mu EXCEPT !.pc = "answered", !.ok = ok,
                                 !.data = IF ok THEN ResponseData(mu) ELSE << >>]
     \/ /\ mu' = [mu EXCEPT !.pc = "answered", !.ok = FALSE]
        /\ UNCHANGED server
  /\ UNCHANGED qc
  /\ UNCHANGED requestVars
  /\ UNCHANGED uiVars

\* mutationFn settles: onSuccess or onError runs, then mutateAsync settles
MutationSettle ==
  /\ mu.pc = "answered"
  /\ qc' = IF mu.ok THEN OnSuccess(qc, mu) ELSE OnError(qc, mu)
  /\ mu' = [mu EXCEPT !.pc = "idle",
                      !.report = IF mu.ok THEN "success" ELSE "error"]
  /\ UNCHANGED server
  /\ UNCHANGED requestVars
  /\ UNCHANGED uiVars

\* a component that uses the query of `key` mounts: the query is fetched
\* unless it holds data that is not invalidated. Components use the list
\* query only (useBusinesses in BusinessList); none calls useBusiness(id).
Observe(key) ==
  /\ key = lists
  /\ ~qc[key].obs
  /\ qc' = [qc EXCEPT
              ![key].obs = TRUE,
              ![key].fetch = IF @ = "idle" /\ (~qc[key].has \/ qc[key].isInvalidated)
                               THEN "pending" ELSE @]
  /\ UNCHANGED <<server, mu>>
  /\ UNCHANGED requestVars
  /\ UNCHANGED uiVars

\* the component unmounts; a fetch in flight goes on
Unobserve(key) ==
  /\ qc[key].obs
  /\ qc' = [qc EXCEPT ![key].obs = FALSE]
  /\ UNCHANGED <<server, mu>>
  /\ UNCHANGED requestVars
  /\ UNCHANGED uiVars

\* the backend answers the fetch of a query, or the request fails
QueryAnswer(key) ==
  /\ qc[key].fetch = "pending"
  /\ \E ok \in BOOLEAN :
       LET resp == IF key = lists THEN ServerList(server)
                   ELSE ServerDetail(server, key)
       IN qc' = [qc EXCEPT
                   ![key].fetch = "answered",
                   ![key].respOk = ok /\ (key = lists \/ resp # << >>),
                   ![key].resp = IF ok THEN resp ELSE << >>]
  /\ UNCHANGED <<server, mu>>
  /\ UNCHANGED requestVars
  /\ UNCHANGED uiVars

\* queryFn settles: its data is written to the query, which is fresh again;
\* after an error the query keeps what it held
QuerySettle(key) ==
  /\ qc[key].fetch = "answered"
  /\ qc' = [qc EXCEPT
              ![key].fetch = "idle", ![key].resp = << >>, ![key].respOk = FALSE,
              ![key].has = @ \/ qc[key].respOk,
              ![key].data = IF qc[key].respOk THEN qc[key].resp ELSE @,
              ![key].isInvalidated = IF qc[key].respOk THEN FALSE ELSE @]
  /\ UNCHANGED <<server, mu>>
  /\ UNCHANGED requestVars
  /\ UNCHANGED uiVars

\* ------------------------------------------------------- the request client
\* After the mount (and its startup validation), requests with every
\* configuration against a backend that may answer any attempt in any way,
\* over every content of localStorage.
Next ==
  \/ Mount
  \/ \E r \in Slots :
       \/ Request(r, BOOLEAN, 0 .. MaxRetries, RetryDelays, Timeouts)
       \/ FetchResolve(r, Statuses)
       \/ FetchReject(r)
       \/ Abort(r)
       \/ BodyRead(r, Bodies)
       \/ ClockTick(r)
       \/ SleepDone(r)

Spec == Init /\ [][Next]_vars

\* ----------------------------------------------------- the session and tokens
\* The application from its mount on: startup validation, both logins, both
\* logouts, token refresh and authenticated requests with the default
\* configuration.
NextSession ==
  \/ Mount
  \/ ApiLogout
  \/ Logout
  \/ \E r \in Slots :
       \/ Request(r, {FALSE}, DefaultRetries, {RETRY_DELAY}, {TIMEOUT})
       \/ ApiLogin(r)
       \/ HandleSubmit(r)
       \/ RefreshToken(r)
       \/ FetchResolve(r, Statuses)
       \/ FetchReject(r)
       \/ Abort(r)
       \/ BodyRead(r, Bodies)
       \/ ClockTick(r)
       \/ SleepDone(r)

SpecSession == Init /\ [][NextSession]_vars

\* ------------------------------------------------ everything that holds tokens
\* The session with every operation of the Auth Context open to its consumers:
\* besides the startup validation, the logins, the logouts and the refresh,
\* login(), logout() and updateUser() called in any state, and requests with
\* and without skipAuth (resource hooks, the health check).
NextStore ==
  \/ Mount
  \/ ApiLogout
  \/ Logout
  \/ UseAuthLogout
  \/ \E userData \in Users, authToken \in AccessTokens :
       UseAuthLogin(userData, authToken)
  \/ \E userData \in Users : UpdateUser(userData)
  \/ \E r \in Slots :
       \/ Request(r, BOOLEAN, DefaultRetries, {RETRY_DELAY}, {TIMEOUT})
       \/ ApiLogin(r)
       \/ HandleSubmit(r)
       \/ RefreshToken(r)
       \/ FetchResolve(r, Statuses)
       \/ FetchReject(r)
       \/ Abort(r)
       \/ BodyRead(r, Bodies)
       \/ ClockTick(r)
       \/ SleepDone(r)

SpecStore == Init /\ [][NextStore]_vars

\* What the code's own timers guarantee: time passes for an attempt in flight,
\* a due abort timer fires, and the timer of a backoff sleep fires.
Timers ==
  \A r \in Slots :
    /\ WF_vars(ClockTick(r))
    /\ WF_vars(Abort(r))
    /\ WF_vars(SleepDone(r))

\* Every attempt eventually gets a response, fails or times out: a pending
\* fetch settles and response.json() settles.
Progress ==
  \A r \in Slots :
    /\ WF_vars(FetchResolve(r, Statuses) \/ FetchReject(r) \/ Abort(r))
    /\ WF_vars(BodyRead(r, Bodies))
    /\ WF_vars(SleepDone(r))

\* The request client when every attempt eventually gets a response, fails or
\* times out.
SpecFair == Spec /\ WF_vars(Mount) /\ Progress

\* React runs the AuthProvider's mount effect after the first render, and the
\* timers fire.
SpecSessionFair == SpecSession /\ WF_vars(Mount) /\ Timers

\* ------------------------------------------------------- the Auth Context
\* The AuthProvider as its consumers may use it: the startup validation, the
\* login form, and login() and logout() called in whatever state the context
\* is in.
NextAuth ==
  \/ Mount
  \/ UseAuthLogout
  \/ \E userData \in Users, authToken \in AccessTokens :
       UseAuthLogin(userData, authToken)
  \/ \E r \in Slots :
       \/ HandleSubmit(r)
       \/ FetchResolve(r, Statuses)
       \/ FetchReject(r)
       \/ Abort(r)
       \/ BodyRead(r, Bodies)
       \/ ClockTick(r)
       \/ SleepDone(r)

SpecAuth == Init /\ [][NextAuth]_vars

\* ------------------------------------------------------------- the router
\* the user opens a path (address bar, link), or AuthPage calls
\* navigate("/businesses")
Go(path) ==
  /\ nav' = [path |-> path, hops |-> 0]
  /\ UNCHANGED api
  /\ UNCHANGED requestVars
  /\ UNCHANGED cacheVars

\* the <Navigate> the current route renders takes effect
Redirect ==
  /\ Render(nav.path, auth).kind = "Navigate"
  /\ nav.hops < MaxHops
  /\ nav' = [path |-> Render(nav.path, auth).to, hops |-> nav.hops + 1]
  /\ UNCHANGED api
  /\ UNCHANGED requestVars
  /\ UNCHANGED cacheVars

\* The application: the Auth Context in use and the router on top of it.
NextApp ==
  \/ NextAuth
  \/ \E userData \in Users : UpdateUser(userData)
  \/ \E path \in Paths : Go(path)
  \/ Redirect

SpecApp == Init /\ [][NextApp]_vars

\* ------------------------------------------------------- two refresh calls
\* Both slots are in use: after the mount, pairs of refreshToken() calls made
\* in immediate succession, whose requests and responses interleave freely.
InitRace == InitWith(Slots)

NextRace ==
  \/ Mount
  \/ RefreshTwice
  \/ \E r \in Slots :
       \/ FetchResolve(r, Statuses)
       \/ FetchReject(r)
       \/ Abort(r)
       \/ BodyRead(r, Bodies)
       \/ ClockTick(r)
       \/ SleepDone(r)

SpecRace == InitRace /\ [][NextRace]_vars

\* ------------------------------------------------------- useApi in use
\* a component that uses the hook mounts; with `immediate` the effect calls
\* execute()
MountHook(h, config, immediate) ==
  /\ ~api[h].alive /\ api[h].issued = 0 /\ api[h].controller = "null"
  /\ LET hook == [UnmountedHook EXCEPT !.alive = TRUE, !.retry = config.retry,
                                       !.retryCount = config.retryCount,
                                       !.retryDelay = config.retryDelay]
     IN api' = [api EXCEPT ![h] = IF immediate THEN execute(hook) ELSE hook]
  /\ UNCHANGED nav
  /\ UNCHANGED requestVars
  /\ UNCHANGED cacheVars

\* the component calls execute()
Execute(h) ==
  /\ api[h].alive
  /\ api[h].issued < MaxExecutes
  /\ api' = [api EXCEPT ![h] = [execute(api[h]) EXCEPT !.cancelled = FALSE]]
  /\ UNCHANGED nav
  /\ UNCHANGED requestVars
  /\ UNCHANGED cacheVars

\* a retry timer fires: setTimeout's callback calls execute()
TimerFire(h) ==
  /\ api[h].issued < MaxExecutes
  /\ \E i \in 1 .. Len(api[h].timers) :
       api' = [api EXCEPT ![h] =
                 execute([api[h] EXCEPT !.timers =
                            SubSeq(@, 1, i - 1) \o SubSeq(@, i + 1, Len(@))])]
  /\ UNCHANGED nav
  /\ UNCHANGED requestVars
  /\ UNCHANGED cacheVars

\* apiCall() resolves for a pending call
CallResolve(h) ==
  /\ \E c \in api[h].calls : api' = [api EXCEPT ![h] = executeThen(api[h], c)]
  /\ UNCHANGED nav
  /\ UNCHANGED requestVars
  /\ UNCHANGED cacheVars

\* apiCall() rejects for a pending call
CallReject(h) ==
  /\ \E c \in api[h].calls, status \in CallErrors :
       api' = [api EXCEPT ![h] = executeCatch(api[h], c, status)]
  /\ UNCHANGED nav
  /\ UNCHANGED requestVars
  /\ UNCHANGED cacheVars

\* the component calls cancel()
Cancel(h) ==
  /\ api[h].alive
  /\ api' = [api EXCEPT ![h] = [cancel(api[h]) EXCEPT !.cancelled = TRUE]]
  /\ UNCHANGED nav
  /\ UNCHANGED requestVars
  /\ UNCHANGED cacheVars

\* the component unmounts: the effect's cleanup calls cancel()
Unmount(h) ==
  /\ api[h].alive
  /\ api' = [api EXCEPT ![h] = [cancel(api[h]) EXCEPT !.cancelled = TRUE,
                                                      !.alive = FALSE]]
  /\ UNCHANGED nav
  /\ UNCHANGED requestVars
  /\ UNCHANGED cacheVars

\* the component calls reset()
Reset(h) ==
  /\ api[h].alive
  /\ api' = [api EXCEPT ![h] = reset(api[h])]
  /\ UNCHANGED nav
  /\ UNCHANGED requestVars
  /\ UNCHANGED cacheVars

\* useApi's default configuration, useBusinessHealth's, and one retry
HookConfigs ==
  {[retry |-> FALSE, retryCount |-> 3, retryDelay |-> RETRY_DELAY],
   [retry |-> TRUE, retryCount |-> 3, retryDelay |-> 2 * RETRY_DELAY],
   [retry |-> TRUE, retryCount |-> 1, retryDelay |-> RETRY_DELAY]}

\* The hooks of an authenticated session, mounted and used by components.
InitHooks ==
  /\ ls = [auth_token |-> "a1", refresh_token |-> NULL]
  /\ auth = [user |-> "u1", token |-> "a1", isLoading |-> FALSE]
  /\ mounted = TRUE
  /\ req = [r \in Slots |-> OffReq]
  /\ clock = [r \in Slots |-> 0]
  /\ hist = [r \in Slots |-> NoHist]
  /\ tm = [lastSet |-> NULL, cleared |-> FALSE]
  /\ session = [token |-> NULL, touched |-> FALSE]
  /\ server = [id \in Ids |-> NULL]
  /\ qc = [key \in Keys |-> AbsentQuery]
  /\ mu = IdleMutation
  /\ api = [h \in Hooks |-> UnmountedHook]
  /\ nav = StartNav

NextHooks ==
  \E h \in Hooks :
    \/ \E config \in HookConfigs, immediate \in BOOLEAN :
         MountHook(h, config, immediate)
    \/ Execute(h)
    \/ TimerFire(h)
    \/ CallResolve(h)
    \/ CallReject(h)
    \/ Cancel(h)
    \/ Unmount(h)
    \/ Reset(h)

SpecHooks == InitHooks /\ [][NextHooks]_vars

\* ----------------------------------------------------- the business cache
\* The /businesses page of an authenticated session: queries of the list and
\* of single businesses are observed and fetched, and business mutations of
\* both hook modules run, one at a time, against a backend with any content.
InitCache ==
  /\ ls = [auth_token |-> "a1", refresh_token |-> NULL]
  /\ auth = [user |-> "u1", token |-> "a1", isLoading |-> FALSE]
  /\ mounted = TRUE
  /\ req = [r \in Slots |-> OffReq]
  /\ clock = [r \in Slots |-> 0]
  /\ hist = [r \in Slots |-> NoHist]
  /\ tm = [lastSet |-> NULL, cleared |-> FALSE]
  /\ session = [token |-> NULL, touched |-> FALSE]
  /\ server \in [Ids -> BusinessStatus \cup {NULL}]
  /\ qc = [key \in Keys |-> AbsentQuery]
  /\ mu = IdleMutation
  /\ api = [h \in Hooks |-> UnmountedHook]
  /\ nav = StartNav

NextCache ==
  \/ \E hook \in HookModules, kind \in AllKinds, ids \in SUBSET Ids,
        status \in BusinessStatus \cup {NULL} : Mutate(hook, kind, ids, status)
  \/ MutationAnswer
  \/ MutationSettle
  \/ \E key \in Keys :
       \/ Observe(key)
       \/ Unobserve(key)
       \/ QueryAnswer(key)
       \/ QuerySettle(key)

SpecCache == InitCache /\ [][NextCache]_vars

\* ================================================================== claims
\* a makeRequest call that has settled after at least one attempt
Settled(r) == req[r].pc = "done" /\ hist[r].cause # "none"

\* the kinds of the error taxonomy (API_ERRORS)
Kinds ==
  {"NETWORK_ERROR", "TIMEOUT_ERROR", "VALIDATION_ERROR", "AUTHENTICATION_ERROR",
   "AUTHORIZATION_ERROR", "NOT_FOUND_ERROR", "SERVER_ERROR", "UNKNOWN_ERROR"}

\* the kind the specification assigns to an HTTP status
KindOfStatus(status) ==
  CASE status = 400 -> "VALIDATION_ERROR"
    [] status = 401 -> "AUTHENTICATION_ERROR"
    [] status = 403 -> "AUTHORIZATION_ERROR"
    [] status = 404 -> "NOT_FOUND_ERROR"
    [] Is5xx(status) -> "SERVER_ERROR"
    [] OTHER -> "UNKNOWN_ERROR"

\* the backoff delays before retries 1 .. n: retryDelay * 2^0, ... * 2^(n-1)
Backoff(retryDelay, n) == [i \in 1 .. n |-> retryDelay * Pow2(i - 1)]

\* C1: a logical request whose every attempt got a 5xx response (the last one
\* with a JSON body) has made retries + 1 attempts, has waited
\* retryDelay * 2^n after failed attempt n, and raises an error of kind
\* SERVER_ERROR.
C1_ServerErrorAfterRetries ==
  \A r \in Slots :
    (Settled(r) /\ hist[r].all5xx /\ req[r].lastError.name = "ApiError") =>
      /\ req[r].outcome = "thrown"
      /\ req[r].attempt = req[r].retries
      /\ req[r].delays = Backoff(req[r].retryDelay, req[r].retries)
      /\ req[r].lastError.type = "SERVER_ERROR"

\* C2: once an attempt has received a response with a status in [400,500) the
\* logical request makes no further attempt: it has settled by throwing an
\* ApiError with that status and the kind that corresponds to it.
C2_ClientErrorsTerminal ==
  \A r \in Slots :
    (hist[r].cause = "response" /\ hist[r].status >= 400 /\ hist[r].status < 500
       /\ req[r].pc # "reading") =>
      /\ req[r].pc = "done"
      /\ req[r].outcome = "thrown"
      /\ req[r].lastError.name = "ApiError"
      /\ req[r].lastError.status = hist[r].status
      /\ req[r].lastError.type = KindOfStatus(hist[r].status)

\* C3: no attempt stays in flight longer than its timeout, and a logical
\* request whose every attempt was aborted by the timer has made retries + 1
\* attempts and raises the synthetic 408 TIMEOUT_ERROR.
C3_TimeoutBoundsAttempt ==
  \A r \in Slots :
    /\ InFlight(req[r]) => clock[r] * Tick <= req[r].timeout
    /\ (Settled(r) /\ hist[r].allAbort) =>
         /\ req[r].outcome = "thrown"
         /\ req[r].attempt = req[r].retries
         /\ req[r].lastError =
              ApiError("Request timeout", 408, "TIMEOUT_ERROR")

\* C4: the kind of the raised error is a function of how the last attempt
\* failed: the kind of its status for a response (with a JSON body),
\* TIMEOUT_ERROR for an aborted attempt, NETWORK_ERROR for a transport failure.
C4_KindIsFunctionOfFailure ==
  \A r \in Slots :
    (Settled(r) /\ req[r].outcome = "thrown") =>
      /\ (hist[r].cause = "response" /\ req[r].lastError.name = "ApiError") =>
           req[r].lastError.type = KindOfStatus(hist[r].status)
      /\ hist[r].cause = "abort" => req[r].lastError.type = "TIMEOUT_ERROR"
      /\ hist[r].cause = "transport" =>
           req[r].lastError.type = "NETWORK_ERROR"

\* C5: a logical request that ends without a 2xx response ends by throwing an
\* ApiError that carries a status and a kind of the taxonomy.
C5_EveryFailureTyped ==
  \A r \in Slots :
    (Settled(r) /\ ~(hist[r].cause = "response" /\ ResponseOk(hist[r].status))) =>
      /\ req[r].outcome = "thrown"
      /\ req[r].lastError.name = "ApiError"
      /\ req[r].lastError.status # NoStatus
      /\ req[r].lastError.type \in Kinds

\* C6: an attempt is retried only if it failed with a retryable kind: no
\* request is in its backoff sleep after an error of kind VALIDATION,
\* AUTHENTICATION, AUTHORIZATION, NOT_FOUND or UNKNOWN; and a request that
\* raises a retryable kind has used all its attempts.
C6_RetryByKind ==
  \A r \in Slots :
    /\ req[r].pc = "sleeping" =>
         req[r].lastError.type \notin
           {"VALIDATION_ERROR", "AUTHENTICATION_ERROR", "AUTHORIZATION_ERROR",
            "NOT_FOUND_ERROR", "UNKNOWN_ERROR"}
    /\ (Settled(r) /\ req[r].outcome = "thrown" /\ req[r].lastError.type \in
          {"SERVER_ERROR", "TIMEOUT_ERROR", "NETWORK_ERROR"}) =>
         req[r].attempt = req[r].retries

\* the Authorization header the client is to attach to a request issued with
\* `skipAuth` while the token store is `store`
ExpectedAuthorization(store, skipAuth) ==
  IF skipAuth \/ getToken(store) = NULL
    THEN NULL
    ELSE "Bearer " \o getToken(store)

\* slot r issues a new logical request in this step
Issues(r) == Free(r) /\ req'[r].pc = "fetching"

\* C7: a request issued with skipAuth carries no Authorization header, a
\* request issued without it carries "Bearer <token>" exactly when the token
\* store holds a token at that moment, and every later attempt of the request
\* carries the headers of the first.
C7_AuthorizationHeader ==
  [][\A r \in Slots :
       /\ Issues(r) =>
            req'[r].headers.Authorization =
              ExpectedAuthorization(ls, req'[r].skipAuth)
       /\ (~Free(r) /\ req[r].pc # "off") => req'[r].headers = req[r].headers
    ]_vars

\* C7 witness: a skipAuth request is in its second attempt without an
\* Authorization header although the token store holds a token.
C7_Witness ==
  \E r \in Slots :
    /\ req[r].skipAuth /\ req[r].pc = "fetching" /\ req[r].attempt >= 1
    /\ getToken(ls) # NULL
    /\ req[r].headers.Authorization = NULL

\* slot r's operation `op` ends in this step with a successful response
Succeeds(r, op) ==
  /\ InFlight(req[r]) /\ req'[r].pc = "done"
  /\ req'[r].op = op /\ Succeeded(req'[r])

\* C8 as claimed: a successful login stores the returned token, and every
\* request issued without skipAuth after it and before any logout carries
\* "Bearer <that token>".
C8_LoginTokenUntilLogout ==
  [][/\ \A r \in Slots :
          (Succeeds(r, "login") \/ Succeeds(r, "handleSubmit")) =>
            getToken(ls') = req'[r].ret.token
     /\ \A r \in Slots :
          (Issues(r) /\ ~req'[r].skipAuth /\ session.token # NULL) =>
            req'[r].headers.Authorization = "Bearer " \o session.token
    ]_vars

\* C8 as amended: ... before any logout, and before refreshToken or a failed
\* startup validation has rewritten the stored access token.
C8_LoginTokenUntilRewritten ==
  [][/\ \A r \in Slots :
          (Succeeds(r, "login") \/ Succeeds(r, "handleSubmit")) =>
            getToken(ls') = req'[r].ret.token
     /\ \A r \in Slots :
          (Issues(r) /\ ~req'[r].skipAuth /\ session.token # NULL
             /\ ~session.touched) =>
            req'[r].headers.Authorization = "Bearer " \o session.token
    ]_vars

\* C8 witness: after a login through the form, with no logout or refresh
\* since, an authenticated request is in flight with the login's token.
C8_Witness ==
  \E r \in Slots :
    /\ session.token # NULL /\ ~session.touched
    /\ isAuthenticated(auth) /\ auth.token = session.token
    /\ req[r].op = "request" /\ req[r].pc = "fetching" /\ ~req[r].skipAuth
    /\ req[r].headers.Authorization = "Bearer " \o session.token

\* C9: while TokenManager.setToken(x) is the latest setToken/clearTokens call,
\* getToken() returns x, whatever else has run since; while clearTokens() is
\* the latest write, getToken() and getRefreshToken() return null.
C9_ReadYourWrite ==
  /\ tm.lastSet # NULL => getToken(ls) = tm.lastSet
  /\ tm.cleared => (getToken(ls) = NULL /\ getRefreshToken(ls) = NULL)

\* a refreshToken() call ends in slot r in this step
RefreshEnds(r) ==
  /\ req'[r].op = "refreshToken" /\ req'[r].pc = "done"
  /\ req'[r] # req[r]

\* C10: refreshToken() posts the stored refresh token with skipAuth; when it
\* ends with a result, the result is the returned token and the stored access
\* token is that token; when it ends with an error, both tokens are gone from
\* the store.
C10_RefreshStoresOrClears ==
  [][\A r \in Slots :
       /\ (Issues(r) /\ req'[r].op = "refreshToken") =>
            (req'[r].skipAuth /\ req'[r].local = getRefreshToken(ls)
               /\ req'[r].local # NULL)
       /\ RefreshEnds(r) =>
            IF req'[r].outcome = "returned"
              THEN Succeeded(req'[r]) /\ getToken(ls') = req'[r].ret.token
              ELSE /\ req'[r].outcome = "thrown"
                   /\ getToken(ls') = NULL /\ getRefreshToken(ls') = NULL
    ]_vars

\* both slots hold a finished refreshToken() call of the same pair, made with
\* the same stored refresh token
BothRefreshed ==
  /\ \A r \in Slots : req[r].pc = "done" /\ req[r].op = "refreshToken"
  /\ req[1].local # NULL /\ req[1].local = req[2].local

\* C11: after two refreshToken() calls made in immediate succession with the
\* same stored refresh token have both finished, at most one of them has
\* succeeded, and if one has, the token store still holds the access token
\* that call stored.
C11_RefreshTwiceKeepsToken ==
  BothRefreshed =>
    /\ ~(\A r \in Slots : Succeeded(req[r]))
    /\ \A r \in Slots : Succeeded(req[r]) => getToken(ls) = req[r].ret.token

\* the states of the Auth Context
CtxState(a) ==
  IF a.isLoading THEN "INITIALIZING"
  ELSE IF isAuthenticated(a) THEN "AUTHENTICATED"
  ELSE "UNAUTHENTICATED"

\* the startup validation ends in slot r in this step
CheckAuthEnds(r) ==
  req[r].op = "checkAuth" /\ req[r].pc # "done" /\ req'[r].pc = "done"

\* the steps of the startup, as C12 describes them
StartupStep ==
  /\ (~mounted /\ mounted') =>
       IF getToken(ls) # NULL
         THEN /\ auth'.isLoading
              /\ \E r \in Slots :
                   /\ Issues(r) /\ req'[r].op = "checkAuth"
                   /\ req'[r].local = getToken(ls)
                   /\ req'[r].headers.Authorization = "Bearer " \o getToken(ls)
         ELSE /\ CtxState(auth') = "UNAUTHENTICATED"
              /\ req' = req
  /\ \A r \in Slots :
       CheckAuthEnds(r) =>
         IF Succeeded(req'[r])
           THEN auth' = [user |-> req'[r].ret.user, token |-> req[r].local,
                         isLoading |-> FALSE]
           ELSE CtxState(auth') = "UNAUTHENTICATED" /\ getToken(ls') = NULL
  /\ (auth.isLoading /\ ~auth'.isLoading) =>
       \/ ~mounted /\ getToken(ls) = NULL
       \/ \E r \in Slots : CheckAuthEnds(r)
  /\ ~auth.isLoading => ~auth'.isLoading

\* C12: the Auth Context starts INITIALIZING and always eventually leaves it,
\* once;
\* a token stored at mount is validated with a profile request that carries
\* it, a successful validation gives AUTHENTICATED with the returned user and
\* that token, a failed one removes the stored access token and gives
\* UNAUTHENTICATED, and without a stored token the context becomes
\* UNAUTHENTICATED with no request made.
C12_Startup ==
  /\ CtxState(auth) = "INITIALIZING"
  /\ [][StartupStep]_vars
  /\ <>(CtxState(auth) # "INITIALIZING")

\* C13: login(user, token), in whatever state the context is, leaves it
\* authenticated with that user and that token and with the token in the
\* token store (so does a successful login through the form, with the user
\* and token of the response); logout() leaves user and token null and no
\* access token in the store; isAuthenticated holds exactly when user and
\* token are both set.
C13_LoginLogout ==
  [][/\ \A userData \in Users, authToken \in AccessTokens :
          UseAuthLogin(userData, authToken) =>
            /\ auth'.user = userData /\ auth'.token = authToken
            /\ isAuthenticated(auth')
            /\ getToken(ls') = authToken
     /\ \A r \in Slots :
          Succeeds(r, "handleSubmit") =>
            /\ auth'.user = req'[r].ret.user /\ auth'.token = req'[r].ret.token
            /\ CtxState(auth') = "AUTHENTICATED"
            /\ getToken(ls') = req'[r].ret.token
     /\ UseAuthLogout =>
          /\ auth'.user = NULL /\ auth'.token = NULL
          /\ ~isAuthenticated(auth')
          /\ getToken(ls') = NULL
     /\ isAuthenticated(auth') <=> (auth'.user \in Users /\ auth'.token \in AccessTokens)
     /\ auth'.isLoading = auth.isLoading \/ ~mounted
          \/ \E r \in Slots : CheckAuthEnds(r)
    ]_vars

\* C13 witness: login() was called while the context was authenticated with
\* another token, and the context and the store now hold the new one.
C13_Witness ==
  /\ CtxState(auth) = "AUTHENTICATED"
  /\ auth.token = "a2" /\ getToken(ls) = "a2" /\ session.token = "a2"
  /\ \E r \in Slots :
       req[r].op = "handleSubmit" /\ Succeeded(req[r]) /\ req[r].ret.token = "a1"

\* a request that carried the session's token has failed with kind
\* AUTHENTICATION_ERROR while the context is AUTHENTICATED
AuthFailure(r) ==
  /\ req[r].op = "request" /\ req[r].pc = "done" /\ req[r].outcome = "thrown"
  /\ req[r].lastError.type = "AUTHENTICATION_ERROR"
  /\ CtxState(auth) = "AUTHENTICATED"
  /\ req[r].headers.Authorization = "Bearer " \o auth.token

\* C14: whenever a request of the authenticated session has failed with
\* AUTHENTICATION_ERROR, the guard of the protected route eventually renders
\* the redirect to /auth.
C14_RedirectOn401 ==
  \A r \in Slots : AuthFailure(r) ~> (AuthGuard(auth, TRUE) = "/auth")

\* ------------------------------------------------------------- the cache
\* the latest mutation has settled with a success toast
Reported(kind) ==
  mu.pc = "idle" /\ mu.report = "success" /\ mu.kind = kind

\* the cached list holds the business b
Listed(b) == \E i \in 1 .. Len(qc[lists].data) : qc[lists].data[i] = b

\* C15: once a create has reported success, a list served from the cache
\* contains the created business: in no state has the latest create
\* reported success while the cached list lacks the business it created.
C15_ReadAfterWrite ==
  Reported("create") /\ qc[lists].has => Listed(mu.data[1])

\* the step in which the mutation of one of `kinds` settles with success:
\* its onSuccess callback runs
MutationSucceeds(kinds) ==
  mu.pc = "answered" /\ mu.ok /\ mu.kind \in kinds /\ mu'.pc = "idle"

\* C16: every successful create, update or delete of a business invalidates
\* the list cache: a cached list is marked invalidated when the mutation
\* has settled, so that the next read refetches it.
C16_ListInvalidated ==
  [][MutationSucceeds({"create", "update", "delete"}) /\ qc[lists].has
       => qc'[lists].isInvalidated]_vars

\* the business a single update or delete is about
TheId == CHOOSE i \in mu.ids : TRUE

\* the detail entry of id no longer answers reads with what it held: it is
\* marked invalidated, or holds the business the backend has confirmed
DetailRenewed(id) ==
  qc'[detail(id)].isInvalidated \/ qc'[detail(id)].data = mu.data

\* C17: a successful update of a business renews the cached detail entry of
\* that id and leaves the detail entries of the other ids as they were; a
\* successful delete leaves no detail entry of the deleted id in the cache.
C17_DetailOfThatId ==
  [][/\ MutationSucceeds({"update"}) =>
          /\ qc[detail(TheId)].has => DetailRenewed(TheId)
          /\ \A id \in Ids \ {TheId} : qc'[detail(id)] = qc[detail(id)]
     /\ MutationSucceeds({"delete"}) => ~InCache(qc'[detail(TheId)])]_vars

BulkKinds == {"bulkDelete", "bulkStatus"}

\* the cached list after the step, entry by entry
ListAfter(test(_)) ==
  \A i \in 1 .. Len(qc'[lists].data) : test(qc'[lists].data[i])

\* C18: a successful bulk delete or bulk status update changes the list and
\* the detail entry of every id it was called with in one step: when its
\* onSuccess has run the cached list has lost (or carries the new status of)
\* every such business and every such detail entry is removed (or marked
\* invalidated), and before that step the mutation has written nothing.
C18_BulkAtomic ==
  [][/\ MutationSucceeds({"bulkDelete"}) =>
          /\ qc'[lists].has /\ ListAfter(LAMBDA b : b.id \notin mu.ids)
          /\ \A id \in mu.ids : ~InCache(qc'[detail(id)])
     /\ MutationSucceeds({"bulkStatus"}) =>
          /\ qc'[lists].has
          /\ ListAfter(LAMBDA b : b.id \in mu.ids => b.status = mu.status)
          /\ \A id \in mu.ids :
               qc[detail(id)].has => qc'[detail(id)].isInvalidated
     /\ mu.kind \in BulkKinds /\ mu.pc = "pending" /\ mu' # mu => qc' = qc]_vars

\* a bulk status update of both businesses has settled: the cached list of
\* two carries the new status and the cached detail of business 1 is
\* invalidated
C18_Witness ==
  /\ Reported("bulkStatus") /\ mu.ids = Ids
  /\ Len(qc[lists].data) = Cardinality(Ids)
  /\ \A i \in 1 .. Len(qc[lists].data) : qc[lists].data[i].status = mu.status
  /\ qc[detail(1)].has /\ qc[detail(1)].isInvalidated
  /\ qc[detail(1)].data[1].status # mu.status

\* C19: a mutation whose request fails leaves every cache entry as it was
\* and reports the error; the cache is written by a mutation only in the
\* step in which its success is handled: every other step of a mutation
\* (request sent, response received, failure handled) leaves the cache
\* unchanged, and a failure ends in the error report.
C19_FailedMutation ==
  [][/\ mu' # mu /\ ~MutationSucceeds(AllKinds) => qc' = qc
     /\ mu.pc = "answered" /\ ~mu.ok /\ mu'.pc = "idle" => mu'.report = "error"]_vars

\* a mutation has failed while the list and a detail entry were cached
C19_Witness ==
  /\ mu.pc = "idle" /\ mu.report = "error"
  /\ qc[lists].has /\ qc[lists].data # << >>
  /\ \E id \in Ids : qc[detail(id)].has

\* ------------------------------------------------- the request lifecycle
\* PENDING: an attempt is in flight; RETRYING: the backoff sleep; SUCCESS and
\* FAILED: makeRequest has returned or thrown
ReqState(q) ==
  CASE q.pc \in {"fetching", "reading"} -> "PENDING"
    [] q.pc = "sleeping" -> "RETRYING"
    [] q.pc = "done" /\ q.outcome = "returned" -> "SUCCESS"
    [] q.pc = "done" /\ q.outcome = "thrown" -> "FAILED"
    [] OTHER -> "NONE"

Terminal(q) == ReqState(q) \in {"SUCCESS", "FAILED"}

\* the steps a request may take: PENDING to SUCCESS, FAILED or RETRYING,
\* RETRYING to the next attempt, and from a terminal state nothing but the
\* start of another request
LifecycleStep(r) ==
  LET q == req[r]
      p == req'[r]
  IN ReqState(p) # ReqState(q) =>
       CASE ReqState(q) = "PENDING" ->
              /\ ReqState(p) \in {"SUCCESS", "FAILED", "RETRYING"}
              /\ ReqState(p) = "RETRYING" =>
                   Len(p.delays) = Len(q.delays) + 1 /\ p.attempt = q.attempt
              /\ Terminal(p) => p.delays = q.delays /\ p.attempt = q.attempt
         [] ReqState(q) = "RETRYING" ->
              ReqState(p) = "PENDING" /\ p.attempt = q.attempt + 1
                /\ p.delays = q.delays
         [] Terminal(q) ->
              ReqState(p) = "PENDING" /\ p.attempt = 0 /\ p.delays = << >>
         [] OTHER -> TRUE

\* C20: a request that is PENDING or RETRYING reaches SUCCESS or FAILED when
\* every attempt eventually gets a response, fails or times out; it moves
\* only along PENDING -> (SUCCESS | RETRYING -> PENDING | FAILED); it enters
\* RETRYING at most `retries` times, each backoff lying between two
\* attempts, and makes at most retries + 1 attempts; a request in a terminal
\* state stays as it is until another request starts.
C20_RequestLifecycle ==
  /\ \A r \in Slots :
       ReqState(req[r]) \in {"PENDING", "RETRYING"} ~> Terminal(req[r])
  /\ [][\A r \in Slots : LifecycleStep(r)]_vars
  /\ [](\A r \in Slots :
          /\ req[r].attempt <= req[r].retries
          /\ Len(req[r].delays) <= req[r].retries
          /\ Len(req[r].delays) =
               req[r].attempt + (IF ReqState(req[r]) = "RETRYING" THEN 1 ELSE 0)
          /\ req[r].pc = "done" => Terminal(req[r]))

\* a request has ended on its last attempt, after as many backoff delays as
\* it has retries
C20_Witness ==
  \E r \in Slots :
    /\ Terminal(req[r])
    /\ req[r].retries = MaxRetries
    /\ req[r].attempt = req[r].retries
    /\ Len(req[r].delays) = req[r].retries

\* ------------------------------------------------------------ the useApi hook
\* call c of hook h settles in this step after a later execute() of the hook
SupersededSettles(h, c) ==
  c \in api[h].calls /\ c \notin api'[h].calls /\ c < api[h].issued

\* C21: when an earlier call of a hook settles after execute() has been
\* called again, its result is discarded: the hook's state is not written, no
\* retry is scheduled and the retry counter is left alone; and a step of one
\* hook never changes another hook.
C21_LatestExecuteWins ==
  [][\A h \in Hooks :
       /\ \A c \in api[h].calls :
            SupersededSettles(h, c) =>
              /\ api'[h].state = api[h].state
              /\ api'[h].timers = api[h].timers
              /\ api'[h].retryCountRef = api[h].retryCountRef
       /\ api'[h] # api[h] => \A g \in Hooks \ {h} : api'[g] = api[g]]_vars

\* ------------------------------------------------------------ the token store
\* this step is a logout or a login() of the Auth Context, or the step in
\* which the caller of a settled request of one of `ops` continues
StoreWriter(ops) ==
  \/ ApiLogout
  \/ Logout
  \/ UseAuthLogout
  \/ \E userData \in Users, authToken \in AccessTokens :
       UseAuthLogin(userData, authToken)
  \/ \E r \in Slots :
       req[r].op \in ops /\ req[r].pc # "done" /\ req'[r].pc = "done"

\* C22: the stored tokens are changed only by login, logout and
\* refreshToken: a step that changes localStorage is a login (ApiClient.login,
\* the login form, the context's login()), a logout or the end of a
\* refreshToken call.
C22_OnlyLoginLogoutRefresh ==
  [][ls' # ls => StoreWriter({"login", "handleSubmit", "refreshToken"})]_vars

\* C22, amended: the stored tokens are changed only by login, logout,
\* refreshToken and the end of the startup validation (which removes the
\* access token when it fails); requests, retries, updateUser and the health
\* check leave them unchanged.
C22_StoreWriters ==
  [][ls' # ls =>
       StoreWriter({"login", "handleSubmit", "refreshToken", "checkAuth"})]_vars

\* the startup validation has failed and has removed the stored access token
C22_Witness ==
  \E r \in Slots :
    /\ req[r].op = "checkAuth" /\ req[r].pc = "done" /\ ~Succeeded(req[r])
    /\ ls.auth_token = NULL /\ ~auth.isLoading

\* the refreshToken call in slot r ends with success in this step
RefreshSucceeds(r) ==
  /\ req[r].op = "refreshToken" /\ req[r].pc # "done"
  /\ req'[r].pc = "done" /\ Succeeded(req'[r])

\* C23: a refresh that succeeds, also after a logout has run while it was in
\* flight, writes the new access token and nothing else: the stored refresh
\* token and the Auth Context are as they were before the step.
C23_StaleWriteOnly ==
  [][\A r \in Slots :
       RefreshSucceeds(r) =>
         /\ ls' = setToken(ls, req'[r].ret.token)
         /\ auth' = auth]_vars

\* the state the race leaves: the refresh has succeeded, the logout that ran
\* while it was in flight has cleared the refresh token it had read, no one
\* is logged in, and the store holds the access token of the refresh
C23_Witness ==
  \E r \in Slots :
    /\ req[r].op = "refreshToken" /\ req[r].pc = "done" /\ Succeeded(req[r])
    /\ ls.refresh_token = NULL
    /\ ls.auth_token = req[r].ret.token
    /\ auth.token = NULL /\ ~isAuthenticated(auth)
    /\ session.token = NULL

\* ------------------------------------------------------ headers and retries
\* the headers a request issued now would get
HeadersNow(q) == DefaultHeaders(AuthInterceptor(ls, q.skipAuth, NoHeaders))

\* C24: the interceptors run once per logical request: from its first
\* attempt to its end, whatever happens to the stored token in between, a
\* request keeps the headers it was issued with.
C24_HeadersFixedAtIssue ==
  [][\A r \in Slots :
       req[r].pc \in {"fetching", "reading", "sleeping"} =>
         req'[r].headers = req[r].headers]_vars

\* a retry is in flight with the Authorization value read at issue, which is
\* no longer what the token store would give
C24_Witness ==
  \E r \in Slots :
    /\ req[r].pc = "fetching" /\ req[r].attempt > 0 /\ ~req[r].skipAuth
    /\ req[r].headers.Authorization # NULL
    /\ req[r].headers # HeadersNow(req[r])

\* ------------------------------------------------------- unparsable bodies
ParseError == PlainError("SyntaxError", "Unexpected token")

C26_ContextTokenStored ==
  isAuthenticated(auth) => ls.auth_token = auth.token

\* ------------------------------------------------------- cancelled work
\* C27: once cancel() has run (from the component or from the unmount
\* cleanup) and until the component calls execute() again, no step other
\* than the component's own reset() or cancel() issues a call or changes the
\* hook's state, whether the cancelled work was in flight or waiting in its
\* retry backoff.
C27_CancelStopsWork ==
  [][\A h \in Hooks :
       (api[h].cancelled /\ api'[h].cancelled /\ ~Reset(h) /\ ~Cancel(h)) =>
         /\ api'[h].issued = api[h].issued
         /\ api'[h].state = api[h].state]_vars

\* ------------------------------------------------- the list cache as a set
\* C28: the cached list never holds two entries with the same business id,
\* however the success handlers of create interleave with list fetches.
C28_NoDuplicateId ==
  \A i, j \in 1 .. Len(qc[lists].data) :
    qc[lists].data[i].id = qc[lists].data[j].id => i = j

\* the ids of the businesses in a list
IdsOf(list) == {list[i].id : i \in 1 .. Len(list)}

\* C29: the success handler of a bulk delete removes a business from the
\* cached list, and its detail entry from the cache, only if the backend has
\* deleted it: a business it was called with that still exists on the
\* backend stays listed and keeps its detail entry, also when the response
\* reports failures.
C29_BulkDeleteRemovesDeleted ==
  [][MutationSucceeds({"bulkDelete"}) =>
       \A id \in mu.ids :
         server[id] # NULL =>
           /\ id \in IdsOf(qc[lists].data) => id \in IdsOf(qc'[lists].data)
           /\ InCache(qc[detail(id)]) => InCache(qc'[detail(id)])]_vars

\* ------------------------------------------------------------ route guarding
\* where navigation from `path` ends for the context a, following at most
\* `hops` redirects: the route reached and what it renders
RECURSIVE Landing(_, _, _)
Landing(path, a, hops) ==
  IF Render(path, a).kind = "Navigate" /\ hops > 0
    THEN Landing(Render(path, a).to, a, hops - 1)
    ELSE [path |-> path, kind |-> Render(path, a).kind]

\* C30: while the context is loading the current route renders neither the
\* protected page nor the AuthPage; once it is not loading, navigation from
\* every path ends after at most two redirects on /businesses with the
\* protected page if the context is authenticated and on /auth with the
\* AuthPage if it is not; the protected page is never rendered for an
\* unauthenticated context.
C30_RouteGuard ==
  /\ auth.isLoading =>
       \A path \in Paths :
         Render(path, auth).kind \notin {"Protected", "AuthPage"}
  /\ ~auth.isLoading =>
       \A path \in Paths :
         Landing(path, auth, 2) =
           IF isAuthenticated(auth)
             THEN [path |-> "/businesses", kind |-> "Protected"]
             ELSE [path |-> "/auth", kind |-> "AuthPage"]
  /\ Render(nav.path, auth).kind = "Protected" => isAuthenticated(auth)

\* an unauthenticated visitor who opened / has been redirected twice and
\* sees the AuthPage on /auth
C30_Witness ==
  /\ ~auth.isLoading /\ ~isAuthenticated(auth)
  /\ nav = [path |-> "/auth", hops |-> 2]
  /\ Render(nav.path, auth).kind = "AuthPage"

====
